---------------------------- MODULE Spec2Model ----------------------------
(***************************************************************************)
(* Model of src/bot.py: the Telegram support bot's handlers               *)
(* (handle_message, escalate_to_human, button_handler) and the pure        *)
(* helpers they use (check_faqs, needs_human_escalation).                  *)
(*                                                                         *)
(* A text is a sequence of characters; a character is a one-symbol string  *)
(* (non-ASCII symbols are written by name: "e_acute", "hourglass", ...).   *)
(* Each inbound update is handled by its own coroutine; coroutines         *)
(* interleave at the await points of the source, so every action below     *)
(* runs one handler from one await to the next.                            *)
(***************************************************************************)
EXTENDS Integers, Sequences, FiniteSets, TLC

\* ------------------------------------------------------------------ bounds

\* Number of inbound updates whose handlers may be in flight together.
MaxUpdates == 2
\* Longest query handed to check_faqs when it is exercised on its own.
MaxQueryLen == 3
\* Longest knowledge base loaded when check_faqs is exercised on its own.
MaxFaqs == 2

\* Most fragments joined into a text handed to needs_human_escalation when it is
\* exercised on its own.
MaxFragments == 2

Handlers == 1..MaxUpdates

\* ------------------------------------------------------------------- texts

\* Python's None for an optional str (query: str = None, update.message).
None == <<"<None>">>

\* str.lower(), character by character.
UpperChars == <<"A", "B", "C", "D", "E", "F", "G", "H", "I", "J", "K", "L", "M",
                "N", "O", "P", "Q", "R", "S", "T", "U", "V", "W", "X", "Y", "Z",
                "A_acute", "E_acute">>
LowerChars == <<"a", "b", "c", "d", "e", "f", "g", "h", "i", "j", "k", "l", "m",
                "n", "o", "p", "q", "r", "s", "t", "u", "v", "w", "x", "y", "z",
                "a_acute", "e_acute">>

UpperToLower ==
    [c \in {UpperChars[i] : i \in 1..Len(UpperChars)} |->
        LowerChars[CHOOSE i \in 1..Len(UpperChars) : UpperChars[i] = c]]

LowerChar(c) == IF c \in DOMAIN UpperToLower THEN UpperToLower[c] ELSE c

lower(s) == [i \in 1..Len(s) |-> LowerChar(s[i])]

\* Python's `sub in s` on str: exact, contiguous, case-sensitive containment.
Contains(sub, s) ==
    \E i \in 0..(Len(s) - Len(sub)) : SubSeq(s, i + 1, i + Len(sub)) = sub

\* Python's truthiness of an optional str: None and "" are falsy.
Truthy(s) == s # None /\ s # <<>>

\* The fixed user-visible strings of the handlers.
ELEVADA_TEXT ==
    <<"diamond", " ", "T", "u", " ", "c", "o", "n", "s", "u", "l", "t", "a", " ",
      "h", "a", " ", "s", "i", "d", "o", " ", "e", "l", "e", "v", "a", "d", "a",
      " ", "a", " ", "n", "u", "e", "s", "t", "r", "o", " ", "e", "q", "u", "i",
      "p", "o", " ", "d", "e", " ", "s", "o", "p", "o", "r", "t", "e", ".">>
AGENT_TEXT ==
    <<"hourglass", " ", "U", "n", " ", "a", "g", "e", "n", "t", "e", " ", "h", "u",
      "m", "a", "n", "o", " ", "s", "e", " ", "c", "o", "n", "t", "a", "c", "t",
      "a", "r", "a_acute", " ", "c", "o", "n", "t", "i", "g", "o", " ", "e", "n",
      " ", "b", "r", "e", "v", "e", ".">>
FAIL_TEXT ==
    <<"warning", "vs16", " ", "L", "o", " ", "s", "i", "e", "n", "t", "o", ",", " ",
      "e", "s", "t", "o", "y", " ", "t", "e", "n", "i", "e", "n", "d", "o", " ",
      "d", "i", "f", "i", "c", "u", "l", "t", "a", "d", "e", "s", " ", "t",
      "e_acute", "c", "n", "i", "c", "a", "s", ".">>
FAQ_HEADER ==
    <<"books", " ", "F", "A", "Q", "s", " ", "D", "i", "s", "p", "o", "n", "i", "b",
      "l", "e", "s", ":", "\n">>
BULLET == <<"bullet", " ">>
HUMAN_COMMAND == <<"/", "h", "u", "m", "a", "n">>

\* needs_human_escalation's trigger list, in source order.
triggers ==
    << <<"t", "r", "a", "n", "s", "f", "e", "r", "i", "r">>,
       <<"h", "u", "m", "a", "n", "o">>,
       <<"a", "g", "e", "n", "t", "e">>,
       <<"n", "o", " ", "s", "e_acute">>,
       <<"n", "o", " ", "p", "u", "e", "d", "o">> >>

\* needs_human_escalation without the .lower(): a case-sensitive test.
needs_human_escalation_cased(response) ==
    \E i \in 1..Len(triggers) : Contains(triggers[i], response)

needs_human_escalation(response) ==
    LET text == lower(response)
    IN  \E i \in 1..Len(triggers) : Contains(triggers[i], text)

\* --------------------------------------------------------- knowledge bases

\* faqs.json is not part of the sources: these are documents it may hold.
FaqHorario == [question |-> <<"H", "o", "r", "a", "r", "i", "o">>,
               keywords |-> << <<"h", "o", "r", "a">> >>,
               answer   |-> <<"9", "-", "1", "8">>]
FaqPrecio  == [question |-> <<"P", "r", "e", "c", "i", "o">>,
               keywords |-> << <<"p", "r", "e", "c", "i", "o">>, <<"h", "o", "r", "a">> >>,
               answer   |-> <<"1", "0", " ", "U", "S", "D">>]
FaqEnvio   == [question |-> <<"E", "n", "v", "i", "o">>,
               keywords |-> << <<"e", "n", "v", "i", "o">> >>,
               answer   |-> <<>>]

KnowledgeBases == { <<FaqHorario, FaqPrecio, FaqEnvio>>, <<FaqPrecio, FaqHorario>> }

\* Raw texts of the freeform messages users send (filters.TEXT: never empty).
MsgTexts == { <<"H", "o", "r", "a">>,
              <<"p", "r", "e", "c", "i", "o">>,
              <<"e", "n", "v", "i", "o">>,
              <<"H", "o", "l", "a">> }

\* Texts the Completion Service may return.
GenTexts == { <<"N", "o", " ", "P", "u", "e", "d", "o">>,
              <<"O", "k">> }

\* update.effective_user: who sent update h (updates of one run come from
\* different users and, from three updates on, also from the same user).
Sender(h) == IF h % 2 = 1 THEN "ana" ELSE "luis"

\* Inputs for check_faqs on its own: every query up to MaxQueryLen over a small
\* alphabet, every knowledge base of up to MaxFaqs of these entries.
QueryAlphabet == {"a", "b", "A"}

RECURSIVE StringsUpTo(_)
StringsUpTo(n) ==
    IF n = 0 THEN { <<>> }
    ELSE LET shorter == StringsUpTo(n - 1)
         IN  shorter \cup { Append(s, c) : s \in shorter, c \in QueryAlphabet }

Queries == StringsUpTo(MaxQueryLen)

ProbeEntries ==
    { [question |-> <<"1">>, keywords |-> << <<"a">> >>, answer |-> <<"x">>],
      [question |-> <<"2">>, keywords |-> << <<"a", "b">>, <<"b">> >>, answer |-> <<"y">>],
      [question |-> <<"3">>, keywords |-> << <<"b", "a">> >>, answer |-> <<>>],
      [question |-> <<"4">>, keywords |-> << >>, answer |-> <<"z">>],
      [question |-> <<"5">>, keywords |-> << <<"A">> >>, answer |-> <<"w">>],
      [question |-> <<"6">>, keywords |-> << <<>> >>, answer |-> <<"v">>] }

RECURSIVE KnowledgeBasesUpTo(_)
KnowledgeBasesUpTo(n) ==
    IF n = 0 THEN { <<>> }
    ELSE LET shorter == KnowledgeBasesUpTo(n - 1)
         IN  shorter \cup { Append(kb, e) : kb \in shorter, e \in ProbeEntries }

ProbeKnowledgeBases == KnowledgeBasesUpTo(MaxFaqs)

\* Inputs for needs_human_escalation on its own: every text made of up to
\* MaxFragments of these fragments (triggers whole, split, in upper case, and
\* near misses).
TextFragments ==
    { <<"t", "r", "a", "n", "s">>,
      <<"f", "e", "r", "i", "r">>,
      <<"H", "u", "m", "a", "n", "o">>,
      <<"A", "G", "E", "N", "T", "E">>,
      <<"n", "o", " ">>,
      <<"N", "O">>,
      <<" ">>,
      <<"s", "e_acute">>,
      <<"S", "E_acute">>,
      <<"s", "e">>,
      <<"p", "u", "e", "d", "o">>,
      <<"o", "k">> }

RECURSIVE TextsUpTo(_)
TextsUpTo(n) ==
    IF n = 0 THEN { <<>> }
    ELSE LET shorter == TextsUpTo(n - 1)
         IN  shorter \cup { s \o f : s \in shorter, f \in TextFragments }

AnswerTexts == TextsUpTo(MaxFragments)

\* Callback tokens a button press may carry.
CallbackData == {"human", "faqs", "Human"}

\* ------------------------------------------------------------------- state

VARIABLES
    faqs_json,     \* the knowledge base document faqs.json
    FAQS,          \* the knowledge base loaded at start (module global)
    update,        \* update[h]: the inbound update handler h was started with
    pc,            \* pc[h]: the await point handler h is suspended at
    response,      \* handle_message's local `response`
    replies,       \* texts sent to the user by handler h, in order
    sinkCalls,     \* bot.send_message calls to SUPPORT_CHAT_ID made by handler h
    geminiCalls,   \* number of generate_gemini_response calls made by handler h
    kbCalls,       \* number of check_faqs calls made by handler h
    generated,     \* what the Completion Service gave handler h
    sinkResult,    \* how handler h's Escalation Sink call ended
    duringGeneration, \* message h matched the knowledge base and arrived while
                   \* another handler was awaiting the Completion Service
                   \* (history)
    probe          \* the last pure-function application (pure specification only)

vars == <<faqs_json, FAQS, update, pc, response, replies, sinkCalls, geminiCalls, kbCalls,
          generated, sinkResult, duringGeneration, probe>>

NoUpdate == [kind |-> "none", user |-> "none", text |-> None, data |-> "none"]
NoProbe == [fn |-> "none", arg |-> <<>>, result |-> <<>>]

\* --------------------------------------------------------------- check_faqs

\* check_faqs with the loop overwriting its result: the last match wins.
RECURSIVE check_faqs_last_from(_, _, _)
check_faqs_last_from(i, query, found) ==
    IF i > Len(FAQS) THEN found
    ELSE IF \E k \in 1..Len(FAQS[i].keywords) : Contains(FAQS[i].keywords[k], query)
         THEN check_faqs_last_from(i + 1, query, FAQS[i].answer)
         ELSE check_faqs_last_from(i + 1, query, found)

check_faqs_last(query) == check_faqs_last_from(1, query, <<>>)

RECURSIVE check_faqs_from(_, _)
check_faqs_from(i, query) ==
    IF i > Len(FAQS) THEN <<>>
    ELSE IF \E k \in 1..Len(FAQS[i].keywords) : Contains(FAQS[i].keywords[k], query)
         THEN FAQS[i].answer
         ELSE check_faqs_from(i + 1, query)

check_faqs(query) == check_faqs_from(1, query)

\* ------------------------------------------------------- escalate_to_human

\* Lines 95-100 evaluate `query or update.message.text`; update.message is None
\* for a callback-query update, so a falsy query raises AttributeError there.
EscalateRaises(upd, query) == ~Truthy(query) /\ upd.kind = "callback"

\* The send_message call of lines 101-105 (the rendered text keeps the user
\* mention and the Consulta field).
EscalateMsg(upd, query) ==
    [chat_id  |-> "SUPPORT_CHAT_ID",
     user     |-> upd.user,
     consulta |-> IF Truthy(query) THEN query ELSE upd.text]

\* The FAQ list of button_handler: "\n".join(f"* {f['question']}" for f in FAQS).
RECURSIVE faq_list_from(_)
faq_list_from(i) ==
    IF i > Len(FAQS) THEN <<>>
    ELSE BULLET \o FAQS[i].question
         \o (IF i < Len(FAQS) THEN <<"\n">> ELSE <<>>)
         \o faq_list_from(i + 1)

\* The FAQ list built by prepending each entry: newest first.
RECURSIVE faq_list_reversed_from(_)
faq_list_reversed_from(i) ==
    IF i < 1 THEN <<>>
    ELSE BULLET \o FAQS[i].question
         \o (IF i > 1 THEN <<"\n">> ELSE <<>>)
         \o faq_list_reversed_from(i - 1)

faq_list_reversed == faq_list_reversed_from(Len(FAQS))

faq_list == faq_list_from(1)

\* ------------------------------------------------------------------ actions

Init ==
    /\ faqs_json \in KnowledgeBases
    /\ FAQS = faqs_json
    /\ update = [h \in Handlers |-> NoUpdate]
    /\ pc = [h \in Handlers |-> "idle"]
    /\ response = [h \in Handlers |-> None]
    /\ replies = [h \in Handlers |-> <<>>]
    /\ sinkCalls = [h \in Handlers |-> <<>>]
    /\ geminiCalls = [h \in Handlers |-> 0]
    /\ kbCalls = [h \in Handlers |-> 0]
    /\ generated = [h \in Handlers |-> None]
    /\ sinkResult = [h \in Handlers |-> "none"]
    /\ duringGeneration = [h \in Handlers |-> FALSE]
    /\ probe = NoProbe

\* Exception raised by the Completion Service call, as a value of `generated`.
Raised == <<"<raised>">>

\* handle_message, lines 109-116 (to the await of run_in_executor) or
\* lines 109-111 and 123 (to the await of reply_text) on a knowledge-base hit.
HandleMessage(h) ==
    /\ pc[h] = "idle"
    /\ \E t \in MsgTexts :
         LET user_input == lower(t)
             r == check_faqs(user_input)
         IN  /\ update' = [update EXCEPT ![h] =
                    [kind |-> "message", user |-> Sender(h), text |-> t, data |-> "none"]]
             /\ kbCalls' = [kbCalls EXCEPT ![h] = @ + 1]
             /\ response' = [response EXCEPT ![h] = r]
             /\ IF r # <<>>
                THEN /\ pc' = [pc EXCEPT ![h] = "reply"]
                     /\ duringGeneration' = [duringGeneration EXCEPT ![h] =
                            \E k \in Handlers \ {h} : pc[k] = "generating"]
                     /\ UNCHANGED geminiCalls
                ELSE /\ pc' = [pc EXCEPT ![h] = "generating"]
                     /\ geminiCalls' = [geminiCalls EXCEPT ![h] = @ + 1]
                     /\ UNCHANGED duringGeneration
    /\ UNCHANGED <<faqs_json, FAQS, replies, sinkCalls, generated, sinkResult, probe>>

\* GeminiReturn with `response` a module global instead of a local: the
\* assignment of line 114 is seen by every handler.
GeminiReturnGlobalResponse(h) ==
    /\ pc[h] = "generating"
    /\ \E g \in GenTexts :
         LET user_input == lower(update[h].text) IN
         /\ generated' = [generated EXCEPT ![h] = g]
         /\ response' = [k \in Handlers |-> g]
         /\ IF needs_human_escalation(g)
            THEN /\ sinkCalls' = [sinkCalls EXCEPT ![h] =
                        Append(@, EscalateMsg(update[h], user_input))]
                 /\ pc' = [pc EXCEPT ![h] = "notifying"]
            ELSE /\ pc' = [pc EXCEPT ![h] = "reply"]
                 /\ UNCHANGED sinkCalls
    /\ UNCHANGED <<duringGeneration, faqs_json, FAQS, update, replies, geminiCalls, kbCalls, sinkResult, probe>>

\* GeminiReturn escalating with the raw message text instead of user_input.
GeminiReturnRawQuery(h) ==
    /\ pc[h] = "generating"
    /\ \E g \in GenTexts :
         /\ generated' = [generated EXCEPT ![h] = g]
         /\ response' = [response EXCEPT ![h] = g]
         /\ IF needs_human_escalation(g)
            THEN /\ sinkCalls' = [sinkCalls EXCEPT ![h] =
                        Append(@, EscalateMsg(update[h], update[h].text))]
                 /\ pc' = [pc EXCEPT ![h] = "notifying"]
            ELSE /\ pc' = [pc EXCEPT ![h] = "reply"]
                 /\ UNCHANGED sinkCalls
    /\ UNCHANGED <<duringGeneration, faqs_json, FAQS, update, replies, geminiCalls, kbCalls, sinkResult, probe>>

\* run_in_executor returns resp.text (line 114); lines 117-118 follow, to the
\* await of send_message inside escalate_to_human or to the await of line 123.
GeminiReturn(h) ==
    /\ pc[h] = "generating"
    /\ \E g \in GenTexts :
         LET user_input == lower(update[h].text) IN
         /\ generated' = [generated EXCEPT ![h] = g]
         /\ response' = [response EXCEPT ![h] = g]
         /\ IF needs_human_escalation(g)
            THEN /\ sinkCalls' = [sinkCalls EXCEPT ![h] =
                        Append(@, EscalateMsg(update[h], user_input))]
                 /\ pc' = [pc EXCEPT ![h] = "notifying"]
            ELSE /\ pc' = [pc EXCEPT ![h] = "reply"]
                 /\ UNCHANGED sinkCalls
    /\ UNCHANGED <<duringGeneration, faqs_json, FAQS, update, replies, geminiCalls, kbCalls, sinkResult, probe>>

\* GeminiRaise without the except clause: the exception leaves the handler.
GeminiRaiseUncaught(h) ==
    /\ pc[h] = "generating"
    /\ generated' = [generated EXCEPT ![h] = Raised]
    /\ pc' = [pc EXCEPT ![h] = "escaped"]
    /\ UNCHANGED <<duringGeneration, faqs_json, FAQS, update, response, replies, sinkCalls, geminiCalls,
                   kbCalls, sinkResult, probe>>

\* generate_content raises: the except clause of lines 120-122.
GeminiRaise(h) ==
    /\ pc[h] = "generating"
    /\ generated' = [generated EXCEPT ![h] = Raised]
    /\ response' = [response EXCEPT ![h] = FAIL_TEXT]
    /\ pc' = [pc EXCEPT ![h] = "reply"]
    /\ UNCHANGED <<duringGeneration, faqs_json, FAQS, update, replies, sinkCalls, geminiCalls, kbCalls,
                   sinkResult, probe>>

\* generate_content never returns: the await of line 114 has no timeout.
GeminiHang(h) ==
    /\ pc[h] = "generating"
    /\ pc' = [pc EXCEPT ![h] = "hung"]
    /\ UNCHANGED <<duringGeneration, faqs_json, FAQS, update, response, replies, sinkCalls, geminiCalls,
                   kbCalls, generated, sinkResult, probe>>

\* send_message (lines 101-105) succeeds; escalate_to_human goes on to the
\* await of reply_text at line 106.
SinkOk(h) ==
    /\ pc[h] = "notifying"
    /\ sinkResult' = [sinkResult EXCEPT ![h] = "ok"]
    /\ pc' = [pc EXCEPT ![h] = "ack"]
    /\ UNCHANGED <<duringGeneration, faqs_json, FAQS, update, response, replies, sinkCalls, geminiCalls,
                   kbCalls, generated, probe>>

\* SinkFail with the failure logged and swallowed inside escalate_to_human,
\* which then goes on to line 106.
SinkFailSwallowed(h) ==
    /\ pc[h] = "notifying"
    /\ sinkResult' = [sinkResult EXCEPT ![h] = "failed"]
    /\ pc' = [pc EXCEPT ![h] = "ack"]
    /\ UNCHANGED <<duringGeneration, faqs_json, FAQS, update, response, replies,
                   sinkCalls, geminiCalls, kbCalls, generated, probe>>

\* send_message raises: escalate_to_human has no try, so the exception goes to
\* its caller: handle_message catches it at line 120, the command and button
\* entry points let it escape.
SinkFail(h) ==
    /\ pc[h] = "notifying"
    /\ sinkResult' = [sinkResult EXCEPT ![h] = "failed"]
    /\ IF update[h].kind = "message"
       THEN /\ response' = [response EXCEPT ![h] = FAIL_TEXT]
            /\ pc' = [pc EXCEPT ![h] = "reply"]
       ELSE /\ pc' = [pc EXCEPT ![h] = "escaped"]
            /\ UNCHANGED response
    /\ UNCHANGED <<duringGeneration, faqs_json, FAQS, update, replies, sinkCalls, geminiCalls, kbCalls,
                   generated, probe>>

\* Line 106, then the return to the caller: handle_message continues with
\* line 119 to the await of line 123; the command handler is finished.
EscalateAck(h) ==
    /\ pc[h] = "ack"
    /\ replies' = [replies EXCEPT ![h] = Append(@, ELEVADA_TEXT)]
    /\ IF update[h].kind = "message"
       THEN /\ response' = [response EXCEPT ![h] = AGENT_TEXT]
            /\ pc' = [pc EXCEPT ![h] = "reply"]
       ELSE /\ pc' = [pc EXCEPT ![h] = "done"]
            /\ UNCHANGED response
    /\ UNCHANGED <<duringGeneration, faqs_json, FAQS, update, sinkCalls, geminiCalls, kbCalls, generated,
                   sinkResult, probe>>

\* Reply sending a normalised copy of the text instead of `response` itself.
ReplyLowered(h) ==
    /\ pc[h] = "reply"
    /\ replies' = [replies EXCEPT ![h] = Append(@, lower(response[h]))]
    /\ pc' = [pc EXCEPT ![h] = "done"]
    /\ UNCHANGED <<duringGeneration, faqs_json, FAQS, update, response, sinkCalls, geminiCalls, kbCalls,
                   generated, sinkResult, probe>>

\* Line 123: await update.message.reply_text(response).
Reply(h) ==
    /\ pc[h] = "reply"
    /\ replies' = [replies EXCEPT ![h] = Append(@, response[h])]
    /\ pc' = [pc EXCEPT ![h] = "done"]
    /\ UNCHANGED <<duringGeneration, faqs_json, FAQS, update, response, sinkCalls, geminiCalls, kbCalls,
                   generated, sinkResult, probe>>

\* CommandHandler("human", escalate_to_human), line 136: escalate_to_human is
\* the handler itself, called with query = None.
HumanCommand(h) ==
    /\ pc[h] = "idle"
    /\ LET upd == [kind |-> "command", user |-> Sender(h), text |-> HUMAN_COMMAND,
                   data |-> "none"]
       IN  /\ update' = [update EXCEPT ![h] = upd]
           /\ sinkCalls' = [sinkCalls EXCEPT ![h] = Append(@, EscalateMsg(upd, None))]
    /\ pc' = [pc EXCEPT ![h] = "notifying"]
    /\ UNCHANGED <<duringGeneration, faqs_json, FAQS, response, replies, geminiCalls, kbCalls, generated,
                   sinkResult, probe>>

\* button_handler, lines 126-127: to the await of query.answer().
ButtonPressed(h) ==
    /\ pc[h] = "idle"
    /\ \E d \in CallbackData :
         update' = [update EXCEPT ![h] =
             [kind |-> "callback", user |-> Sender(h), text |-> None, data |-> d]]
    /\ pc' = [pc EXCEPT ![h] = "answered"]
    /\ UNCHANGED <<duringGeneration, faqs_json, FAQS, response, replies, sinkCalls, geminiCalls, kbCalls,
                   generated, sinkResult, probe>>

\* ButtonDispatch testing for the listing token and escalating otherwise.
ButtonDispatchFaqsOnly(h) ==
    /\ pc[h] = "answered"
    /\ IF update[h].data # "faqs"
       THEN IF EscalateRaises(update[h], None)
            THEN /\ pc' = [pc EXCEPT ![h] = "escaped"]
                 /\ UNCHANGED <<replies, sinkCalls>>
            ELSE /\ sinkCalls' = [sinkCalls EXCEPT ![h] =
                        Append(@, EscalateMsg(update[h], None))]
                 /\ pc' = [pc EXCEPT ![h] = "notifying"]
                 /\ UNCHANGED replies
       ELSE /\ replies' = [replies EXCEPT ![h] = Append(@, FAQ_HEADER \o faq_list)]
            /\ pc' = [pc EXCEPT ![h] = "done"]
            /\ UNCHANGED sinkCalls
    /\ UNCHANGED <<duringGeneration, faqs_json, FAQS, update, response, geminiCalls,
                   kbCalls, generated, sinkResult, probe>>

\* button_handler, lines 128-132.
ButtonDispatch(h) ==
    /\ pc[h] = "answered"
    /\ IF update[h].data = "human"
       THEN IF EscalateRaises(update[h], None)
            THEN /\ pc' = [pc EXCEPT ![h] = "escaped"]
                 /\ UNCHANGED <<replies, sinkCalls>>
            ELSE /\ sinkCalls' = [sinkCalls EXCEPT ![h] =
                        Append(@, EscalateMsg(update[h], None))]
                 /\ pc' = [pc EXCEPT ![h] = "notifying"]
                 /\ UNCHANGED replies
       ELSE /\ replies' = [replies EXCEPT ![h] = Append(@, FAQ_HEADER \o faq_list)]
            /\ pc' = [pc EXCEPT ![h] = "done"]
            /\ UNCHANGED sinkCalls
    /\ UNCHANGED <<duringGeneration, faqs_json, FAQS, update, response, geminiCalls, kbCalls, generated,
                   sinkResult, probe>>

\* Step with generate_gemini_response called on the event loop's own thread:
\* no other handler runs while one is inside the call.
StepBlocking(h) ==
    /\ \A k \in Handlers \ {h} : pc[k] # "generating"
    /\ \/ HandleMessage(h)
       \/ GeminiReturn(h)
       \/ GeminiRaise(h)
       \/ GeminiHang(h)
       \/ SinkOk(h)
       \/ SinkFail(h)
       \/ EscalateAck(h)
       \/ Reply(h)
       \/ HumanCommand(h)
       \/ ButtonPressed(h)
       \/ ButtonDispatch(h)

Step(h) ==
    \/ HandleMessage(h)
    \/ GeminiReturn(h)
    \/ GeminiRaise(h)
    \/ GeminiHang(h)
    \/ SinkOk(h)
    \/ SinkFail(h)
    \/ EscalateAck(h)
    \/ Reply(h)
    \/ HumanCommand(h)
    \/ ButtonPressed(h)
    \/ ButtonDispatch(h)

Next == \E h \in Handlers : Step(h)

Spec == Init /\ [][Next]_vars

\* Fairness: the event loop resumes every coroutine whose awaited call has
\* completed, and a handler started on an update runs.
FairSpec == Spec /\ \A h \in Handlers : WF_vars(Step(h))

\* ------------------------------------------- check_faqs exercised on its own

PureInit ==
    /\ faqs_json \in ProbeKnowledgeBases
    /\ FAQS = faqs_json
    /\ update = [h \in Handlers |-> NoUpdate]
    /\ pc = [h \in Handlers |-> "idle"]
    /\ response = [h \in Handlers |-> None]
    /\ replies = [h \in Handlers |-> <<>>]
    /\ sinkCalls = [h \in Handlers |-> <<>>]
    /\ geminiCalls = [h \in Handlers |-> 0]
    /\ kbCalls = [h \in Handlers |-> 0]
    /\ generated = [h \in Handlers |-> None]
    /\ sinkResult = [h \in Handlers |-> "none"]
    /\ duringGeneration = [h \in Handlers |-> FALSE]
    /\ probe = NoProbe

ProbeCheckFaqs(q) ==
    /\ probe' = [fn |-> "check_faqs", arg |-> q, result |-> check_faqs(q)]
    /\ UNCHANGED <<duringGeneration, faqs_json, FAQS, update, pc, response, replies, sinkCalls, geminiCalls,
                   kbCalls, generated, sinkResult>>

PureNext == \E q \in Queries : ProbeCheckFaqs(q)

PureSpec == PureInit /\ [][PureNext]_vars

\* ------------------------------- needs_human_escalation exercised on its own

ProbeNeedsEscalation(t) ==
    /\ probe = NoProbe
    /\ probe' = [fn |-> "needs_human_escalation", arg |-> t,
                 result |-> needs_human_escalation(t)]
    /\ UNCHANGED <<duringGeneration, faqs_json, FAQS, update, pc, response, replies, sinkCalls,
                   geminiCalls, kbCalls, generated, sinkResult>>

ClassifierNext == \E t \in AnswerTexts : ProbeNeedsEscalation(t)

ClassifierSpec == Init /\ [][ClassifierNext]_vars

\* -------------------------------------------------------------- properties

\* Substring containment stated by position: q = pre \o kw \o suf.
IsSubstring(kw, q) ==
    \E i \in 0..Len(q) : \E j \in i..Len(q) : SubSeq(q, i + 1, j) = kw

EntryMatches(i, q) ==
    \E k \in 1..Len(FAQS[i].keywords) : IsSubstring(FAQS[i].keywords[k], q)

MatchingEntries(q) == { i \in 1..Len(FAQS) : EntryMatches(i, q) }

\* The answer of the first matching entry in load order, <<>> when none matches.
FirstMatchAnswer(q) ==
    LET M == MatchingEntries(q)
    IN  IF M = {} THEN <<>>
        ELSE FAQS[CHOOSE i \in M : \A j \in M : i <= j].answer

IsMessage(h) == update[h].kind = "message"
Query(h) == lower(update[h].text)
Terminal(h) == pc[h] \in {"done", "escaped"}
Sent(h) == { replies[h][i] : i \in 1..Len(replies[h]) }

\* The Completion Service returned a text and the classifier triggered on it.
EscalationTriggered(h) ==
    /\ IsMessage(h)
    /\ generated[h] \notin {None, Raised}
    /\ needs_human_escalation(generated[h])

\* C1: a freeform message whose lower-cased text contains a keyword of some FAQ
\* entry never causes a Completion Service call, whatever that entry's answer.
C1_KbMatchNeverCallsCompletion ==
    \A h \in Handlers :
        (IsMessage(h) /\ MatchingEntries(Query(h)) # {}) => geminiCalls[h] = 0

\* C2: when the Completion Service succeeded and the classifier triggered, the
\* user is sent the 'an agent will contact you' text and never the
\* technical-difficulty text, whether the sink notification succeeded or failed.
C2_SinkFailureDoesNotChangeReply ==
    \A h \in Handlers :
        (EscalationTriggered(h) /\ pc[h] = "done") =>
            (AGENT_TEXT \in Sent(h) /\ FAIL_TEXT \notin Sent(h))

\* C3: no handler lets an exception escape, and a finished handler has sent the
\* user a text.
C3_EveryEntryPointReplies ==
    \A h \in Handlers :
        /\ pc[h] # "escaped"
        /\ pc[h] = "done" => replies[h] # <<>>

ExplicitEscalation(h) ==
    \/ update[h].kind = "command"
    \/ update[h].kind = "callback" /\ update[h].data = "human"

\* C4: an explicit escalation (/human command or 'human' button) that has ended
\* has notified the sink exactly once for its user, has sent the user the
\* acknowledgment and has called neither the Completion Service nor check_faqs.
C4_ExplicitEscalationNotifiesOnce ==
    \A h \in Handlers :
        (ExplicitEscalation(h) /\ Terminal(h)) =>
            /\ Len(sinkCalls[h]) = 1
            /\ sinkCalls[h][1].user = update[h].user
            /\ ELEVADA_TEXT \in Sent(h)
            /\ geminiCalls[h] = 0
            /\ kbCalls[h] = 0

\* C5: when the Completion Service call raised, the handler goes on to reply
\* with the technical-difficulty text only, and the sink got no notification.
C5_CompletionFailureContained ==
    \A h \in Handlers :
        (IsMessage(h) /\ generated[h] = Raised) =>
            /\ sinkCalls[h] = <<>>
            /\ pc[h] \in {"reply", "done"}
            /\ response[h] = FAIL_TEXT
            /\ pc[h] = "reply" => replies[h] = <<>>
            /\ pc[h] = "done" => replies[h] = <<FAIL_TEXT>>

C5_Witness ==
    \E h \in Handlers :
        IsMessage(h) /\ generated[h] = Raised /\ pc[h] = "done"

\* C6: every freeform message is eventually answered, also when the
\* Completion Service call never returns.
C6_EveryMessageEventuallyAnswered ==
    \A h \in Handlers :
        IsMessage(h) ~> (pc[h] = "done" /\ replies[h] # <<>>)

\* C7: once the classifier triggered on a message, the only text the user is sent
\* for it is the 'an agent will contact you' acknowledgment.
C7_OnlyAckAfterEscalation ==
    \A h \in Handlers :
        EscalationTriggered(h) =>
            /\ Sent(h) \subseteq {AGENT_TEXT}
            /\ pc[h] = "done" => replies[h] = <<AGENT_TEXT>>

\* C8: a message with no knowledge-base match whose generated answer holds a
\* trigger phrase has exactly one sink notification, carrying its user and its
\* lower-cased text.
C8_OneNotificationWithQuery ==
    \A h \in Handlers :
        (EscalationTriggered(h) /\ MatchingEntries(Query(h)) = {}) =>
            /\ Len(sinkCalls[h]) = 1
            /\ sinkCalls[h][1].consulta = Query(h)
            /\ sinkCalls[h][1].user = update[h].user

C8_Witness ==
    \E h \in Handlers :
        /\ EscalationTriggered(h)
        /\ MatchingEntries(Query(h)) = {}
        /\ pc[h] = "done"
        /\ update[h].text # Query(h)

\* What handle_message sends the user when it runs by itself on handler h's
\* message, with h's Completion Service and Escalation Sink outcomes.
RepliesAlone(h) ==
    LET answer == FirstMatchAnswer(Query(h))
    IN  IF answer # <<>> THEN <<answer>>
        ELSE IF generated[h] = Raised THEN <<FAIL_TEXT>>
        ELSE IF ~needs_human_escalation(generated[h]) THEN <<generated[h]>>
        ELSE IF sinkResult[h] = "ok" THEN <<ELEVADA_TEXT, AGENT_TEXT>>
        ELSE <<FAIL_TEXT>>

\* The sink notifications it makes when it runs by itself.
SinkCallsAlone(h) ==
    IF /\ FirstMatchAnswer(Query(h)) = <<>>
       /\ generated[h] # Raised
       /\ needs_human_escalation(generated[h])
    THEN << [chat_id |-> "SUPPORT_CHAT_ID", user |-> update[h].user,
             consulta |-> Query(h)] >>
    ELSE <<>>

SameAsAlone ==
    \A h \in Handlers :
        (IsMessage(h) /\ pc[h] = "done") =>
            /\ replies[h] = RepliesAlone(h)
            /\ sinkCalls[h] = SinkCallsAlone(h)

\* C9: in every interleaving of the handlers, each finished message has the
\* replies and the sink notifications of its handler run alone on its text and
\* its own service outcomes, and the loaded knowledge base is still the
\* document that was loaded.
C9_HandlersIndependent == FAQS = faqs_json /\ SameAsAlone

\* Two messages with different texts finished, one answered from the knowledge
\* base and one escalated, while both were in the same run.
C9_Witness ==
    \E h1, h2 \in Handlers :
        /\ h1 # h2
        /\ IsMessage(h1) /\ pc[h1] = "done" /\ geminiCalls[h1] = 0
        /\ IsMessage(h2) /\ pc[h2] = "done" /\ Len(sinkCalls[h2]) = 1
        /\ replies[h1] # replies[h2]

\* C10: check_faqs(query) is the answer of the first entry, in load order, with
\* a keyword that is a substring of query, and empty when there is none.
C10_FirstMatchWins ==
    probe.fn = "check_faqs" => probe.result = FirstMatchAnswer(probe.arg)

\* Two entries with different answers both match the query.
C10_Witness ==
    /\ probe.fn = "check_faqs"
    /\ \E i, j \in MatchingEntries(probe.arg) :
           i < j /\ FAQS[i].answer # FAQS[j].answer /\ probe.result = FAQS[i].answer

\* The five trigger phrases.
TriggerPhrases ==
    { <<"t", "r", "a", "n", "s", "f", "e", "r", "i", "r">>,
      <<"h", "u", "m", "a", "n", "o">>,
      <<"a", "g", "e", "n", "t", "e">>,
      <<"n", "o", " ", "s", "e_acute">>,
      <<"n", "o", " ", "p", "u", "e", "d", "o">> }

HasTriggerPhrase(text) ==
    LET low == lower(text)
    IN  \E t \in TriggerPhrases : IsSubstring(t, low)

\* C11: needs_human_escalation(text) is true exactly when the lower-cased text
\* contains 'transferir', 'humano', 'agente', 'no sé' or 'no puedo'.
C11_TriggerIffPhrase ==
    probe.fn = "needs_human_escalation" =>
        probe.result = HasTriggerPhrase(probe.arg)

\* A trigger partly in upper case and split over two fragments is found.
C11_Witness ==
    /\ probe.fn = "needs_human_escalation"
    /\ probe.arg = <<"n", "o", " ", "S", "E_acute">>
    /\ probe.result = TRUE

\* The Completion Service returned a text the classifier does not trigger on.
GeneratedAccepted(h) ==
    /\ IsMessage(h)
    /\ generated[h] \notin {None, Raised}
    /\ ~HasTriggerPhrase(generated[h])

\* C12: a message with no knowledge-base match whose generated answer holds no
\* trigger phrase is answered with exactly the generated text, and the sink gets
\* no notification for it.
C12_GeneratedTextSentUnmodified ==
    \A h \in Handlers :
        (GeneratedAccepted(h) /\ MatchingEntries(Query(h)) = {}) =>
            /\ sinkCalls[h] = <<>>
            /\ pc[h] \in {"reply", "done"}
            /\ pc[h] = "reply" => (replies[h] = <<>> /\ response[h] = generated[h])
            /\ pc[h] = "done" => replies[h] = <<generated[h]>>

C12_Witness ==
    \E h \in Handlers :
        /\ GeneratedAccepted(h)
        /\ MatchingEntries(Query(h)) = {}
        /\ pc[h] = "done"
        /\ generated[h] # lower(generated[h])

\* C13: while a handler awaits the Completion Service, the handler of another
\* message that matches the knowledge base can start, can send its answer and so
\* finish; a message that arrived during the wait and was answered from the
\* knowledge base got exactly that answer.
C13_CompletionDoesNotBlockOthers ==
    \A h1, h2 \in Handlers :
        (h1 # h2 /\ pc[h1] = "generating") =>
            /\ pc[h2] = "idle" =>
                   ENABLED (Step(h2) /\ IsMessage(h2)' /\ pc'[h2] = "reply")
            /\ pc[h2] = "reply" => ENABLED (Step(h2) /\ pc'[h2] = "done")
            /\ (duringGeneration[h2] /\ pc[h2] = "done" /\ geminiCalls[h2] = 0) =>
                   replies[h2] = <<FirstMatchAnswer(Query(h2))>>

\* A message that arrived while the other handler was waiting has been answered
\* from the knowledge base, and the other handler is still waiting.
C13_Witness ==
    \E h1, h2 \in Handlers :
        /\ h1 # h2
        /\ pc[h1] = "generating"
        /\ IsMessage(h2) /\ duringGeneration[h2]
        /\ pc[h2] = "done" /\ geminiCalls[h2] = 0
        /\ replies[h2] = <<FirstMatchAnswer(Query(h2))>>

\* The lines of a text: its pieces between line breaks.
RECURSIVE LinesOf(_)
LinesOf(text) ==
    IF \A i \in 1..Len(text) : text[i] # "\n" THEN <<text>>
    ELSE LET i == CHOOSE k \in 1..Len(text) :
                      text[k] = "\n" /\ \A j \in 1..(k - 1) : text[j] # "\n"
         IN  <<SubSeq(text, 1, i - 1)>> \o LinesOf(SubSeq(text, i + 1, Len(text)))

\* A button press that is not the 'human' one: the topic listing.
IsListing(h) == update[h].kind = "callback" /\ update[h].data # "human"

\* C14: the topic listing is, after its heading, one line per FAQ entry, each
\* the bullet marker followed by the entry's question, in load order, and it
\* makes no Completion Service call and no sink notification.
C14_ListingOneLinePerEntry ==
    \A h \in Handlers :
        IsListing(h) =>
            /\ geminiCalls[h] = 0
            /\ sinkCalls[h] = <<>>
            /\ pc[h] = "done" =>
                /\ Len(replies[h]) = 1
                /\ SubSeq(replies[h][1], 1, Len(FAQ_HEADER)) = FAQ_HEADER
                /\ LinesOf(SubSeq(replies[h][1], Len(FAQ_HEADER) + 1, Len(replies[h][1])))
                       = [i \in 1..Len(FAQS) |-> <<"bullet", " ">> \o FAQS[i].question]

\* A listing of a knowledge base of three entries has been sent.
C14_Witness ==
    \E h \in Handlers :
        IsListing(h) /\ pc[h] = "done" /\ Len(FAQS) = 3 /\ update[h].data = "faqs"

\* Text t holds phrase p.
HasPhrase(p, t) ==
    \E i \in 1..(Len(t) - Len(p) + 1) : \A j \in 1..Len(p) : t[i + j - 1] = p[j]

ElevadaPhrase ==
    <<"e", "l", "e", "v", "a", "d", "a", " ", "a", " ", "n", "u", "e", "s", "t",
      "r", "o", " ", "e", "q", "u", "i", "p", "o">>
AgentePhrase ==
    <<"U", "n", " ", "a", "g", "e", "n", "t", "e", " ", "h", "u", "m", "a", "n",
      "o", " ", "s", "e", " ", "c", "o", "n", "t", "a", "c", "t", "a", "r",
      "a_acute">>

\* Handler h has sent the user an escalation acknowledgment.
AckSent(h) ==
    \E i \in 1..Len(replies[h]) :
        HasPhrase(ElevadaPhrase, replies[h][i]) \/ HasPhrase(AgentePhrase, replies[h][i])

\* C15: the user has been sent an escalation acknowledgment only for an update
\* whose one sink notification was made and succeeded.
C15_AckOnlyAfterSinkSuccess ==
    \A h \in Handlers :
        AckSent(h) => (Len(sinkCalls[h]) = 1 /\ sinkResult[h] = "ok")

\* Both acknowledgments have been sent for a message, after the sink call
\* succeeded.
C15_Witness ==
    \E h \in Handlers :
        /\ IsMessage(h) /\ pc[h] = "done"
        /\ replies[h] = <<ELEVADA_TEXT, AGENT_TEXT>>
        /\ sinkResult[h] = "ok"

\* Handler h has entered escalate_to_human or gone beyond its first lines.
EscalationAttempted(h) ==
    \/ pc[h] \in {"escaped", "notifying", "ack"}
    \/ sinkCalls[h] # <<>>
    \/ sinkResult[h] # "none"

\* C16: a button press leads to an escalation attempt only when its token is
\* exactly 'human'; with any other token the handler sends the topic listing
\* and never notifies the sink.
C16_OnlyHumanTokenEscalates ==
    \A h \in Handlers :
        update[h].kind = "callback" =>
            /\ EscalationAttempted(h) => update[h].data = "human"
            /\ update[h].data # "human" =>
                /\ pc[h] \in {"answered", "done"}
                /\ sinkCalls[h] = <<>>
                /\ replies[h] = IF pc[h] = "done" THEN <<FAQ_HEADER \o faq_list>>
                                ELSE <<>>

\* A press carrying a token that differs from 'human' only by case has been
\* answered with the listing, and a press carrying 'human' has led to the attempt.
C16_Witness ==
    \E h1, h2 \in Handlers :
        /\ update[h1].kind = "callback" /\ update[h1].data = "Human"
        /\ pc[h1] = "done"
        /\ update[h2].kind = "callback" /\ update[h2].data = "human"
        /\ EscalationAttempted(h2)

=============================================================================
